---- MODULE Spec2Model ----
(***************************************************************************)
(* PailgunServer / PailgunHandler (src/python/pants/pantsd/pailgun_server.py) *)
(* as a state machine: one Listener thread calling handle_request in a     *)
(* loop, one handler thread per accepted connection running                *)
(* process_request_thread, an external lifecycle manager sharing the       *)
(* re-entrant lifecycle lock, and clients that connect and send a request. *)
(* Spec starts from a constructed, listening server; ServerSpec starts     *)
(* before __init__ and covers binding and activation as well.              *)
(***************************************************************************)
EXTENDS Integers, Sequences, FiniteSets, TLC

\* ------------------------------------------------------------------ bounds
\* Number of client connections that arrive during a behaviour.
MaxConns == 2

Conns == 1..MaxConns
NoConn == 0

\* ------------------------------------------------------------ request data
None == "None"
EmptyEnv == [k \in {} |-> ""]
ProfileEnv == [k \in {"PANTSD_PROFILE"} |-> "/tmp/prof"]

\* What a client puts on the wire: (working_dir, command, arguments, environment).
\* Handlers share no request data, so the clients take turns with two requests
\* that differ in every field: the n-th connection carries RequestOf(n).
RequestA == [wd |-> "/a", cmd |-> "list",  args |-> <<"list", "::">>, env |-> EmptyEnv]
RequestB == [wd |-> "/b", cmd |-> "other", args |-> <<"::", "list">>, env |-> ProfileEnv]
RequestOf(n) == IF n % 2 = 1 THEN RequestA ELSE RequestB

NoRequest == [wd |-> None, cmd |-> None, args |-> <<>>, env |-> EmptyEnv]
NoLocal == [arguments |-> <<None>>, environment |-> EmptyEnv]

\* A call either returns ("ok"), raises an Exception ("exc") or raises a
\* BaseException that is no Exception, e.g. SystemExit ("base").
Outcomes == {"ok", "exc", "base"}
\* Calls that fail with Exceptions only: the codec and the sockets (protocol
\* and socket errors), the Runner factory and the callback.
IOOutcomes == {"ok", "exc"}
Raised(o) == o # "ok"

\* -------------------------------------------------------------------- state
VARIABLES
  lifecycle_lock,  \* the RLock: [owner, count]
  caller_holds,    \* the Listener's caller holds the (re-entrant) lock itself
  external_holds,  \* the external lifecycle manager is inside its locked section
  listener_pc,     \* where the Listener thread is inside handle_request
  request,         \* the connection the Listener's current call accepted
  last_result,     \* how the Listener's last handle_request call ended
  backlog,         \* connections waiting in the listening socket's queue
  arrived,         \* number of connections made so far
  sent,            \* sent[c]: the request the client of c sent
  thread_pc,       \* thread_pc[c]: where c's handler thread is
  pending_exc,     \* pending_exc[c]: the exception in flight in c's thread
  local,           \* local[c]: handle()'s locals (arguments, environment)
  runner_calls,    \* runner_calls[c]: calls of runner_factory for c
  trace,           \* trace[c]: what has been done to connection c, in order
  server_address,  \* the port asked for in server_address (0: any free port)
  server_port,     \* self.server_port
  socket,          \* the listening socket: none, created, bound, listening, closed
  init_outcome     \* how __init__ ended: new (not run yet), ok, or the call that raised

vars == << lifecycle_lock, caller_holds, external_holds, listener_pc, request,
           last_result, backlog, arrived, sent, thread_pc, pending_exc, local,
           runner_calls, trace, server_address, server_port, socket, init_outcome >>

listener_vars == << lifecycle_lock, caller_holds, external_holds, listener_pc, request,
                   last_result >>
handler_vars == << thread_pc, pending_exc, local, runner_calls >>
server_vars == << server_address, server_port, socket, init_outcome >>

\* One entry of trace[c]: the operation, how it ended, the thread doing it and
\* what it put on the wire (None for an operation that writes nothing).
Event(op, res, by) == [op |-> op, res |-> res, by |-> by, data |-> None]
Write(op, res, by, data) == [op |-> op, res |-> res, by |-> by, data |-> data]

\* ------------------------------------------------------- the lifecycle lock
\* threading.RLock as handed out by self.lifecycle_lock().
Unlocked == [owner |-> "none", count |-> 0]
\* Faulty variant of CanAcquire: the lock is taken whoever owns it
CanAcquire_ignores_owner(l, t) == TRUE
CanAcquire(l, t) == l.owner = "none" \/ l.owner = t
Acquire(l, t) == [owner |-> t, count |-> l.count + 1]
Release(l) == IF l.count <= 1 THEN Unlocked ELSE [l EXCEPT !.count = l.count - 1]
HeldBy(l, t) == IF l.owner = t THEN l.count ELSE 0
\* How often the Listener thread holds the lock outside handle_request.
Outer(h) == IF h THEN 1 ELSE 0

\* ------------------------------------------- PailgunServer.__init__, binding
\* Line 127: self.server_port = None (a port is a number, None is none of them).
NoPort == -1
\* The ports a caller asks for: 0 lets the kernel pick a free one.
Addresses == {0, 8080}
\* The ports the kernel may pick for a request of port 0 (the ends of its range).
KernelPorts == {1, 65535}

\* self.socket.getsockname()[1] after a successful bind to port addr, p being
\* the kernel's pick.
getsockname(addr, p) == IF addr = 0 THEN p ELSE addr

\* The server's networking fields and the exception in flight.
Networking(sock, port, exc) == [socket |-> sock, server_port |-> port, exc |-> exc]

\* Faulty variant of server_bind: the port asked for is recorded, not the port bound
server_bind_keeps_requested_port(n, addr, ob, p) ==
  IF ob = "ok" THEN Networking("bound", addr, "none")
  ELSE Networking(n.socket, n.server_port, "bind")
\* Lines 138-141: TCPServer.server_bind binds the socket (ob: how bind ended);
\* only then is server_port read back from the socket.
server_bind(n, addr, ob, p) ==
  IF ob = "ok" THEN Networking("bound", getsockname(addr, p), "none")
  ELSE Networking(n.socket, n.server_port, "bind")

\* TCPServer.server_activate: socket.listen (oa: how it ended).
server_activate(n, oa) ==
  IF oa = "ok" THEN [n EXCEPT !.socket = "listening"]
  ELSE [n EXCEPT !.exc = "activate"]

\* TCPServer.server_close: self.socket.close().
server_close(n) == [n EXCEPT !.socket = "closed"]

\* Lines 132-133, the try block: server_activate runs only when server_bind returned.
bind_then_activate(n, addr, ob, oa, p) ==
  IF server_bind(n, addr, ob, p).exc # "none" THEN server_bind(n, addr, ob, p)
  ELSE server_activate(server_bind(n, addr, ob, p), oa)

\* Faulty variant of init_except: the exception propagates with the socket left open
init_except_leaves_socket(n) == n
\* Lines 134-136, the except clause: close the socket, re-raise what was caught.
init_except(n) == IF n.exc # "none" THEN server_close(n) ELSE n

\* Lines 122-136: what __init__ leaves behind. The socket is created and
\* server_port set to None; networking is touched only with bind_and_activate.
init_networking(bind_and_activate, addr, ob, oa, p) ==
  IF bind_and_activate
    THEN init_except(bind_then_activate(Networking("created", NoPort, "none"), addr, ob, oa, p))
    ELSE Networking("created", NoPort, "none")

\* How __init__ ended, from the exception it let out.
InitOutcome(n) == IF n.exc = "none" THEN "ok" ELSE n.exc

\* The server exists and its socket listens: handle_request may be called.
Constructed == init_outcome = "ok"
Listening == Constructed /\ socket = "listening"

\* --------------------------------------------------------------------- Init
\* The serving state of a fresh server: nothing accepted, the lock free.
Serving ==
  /\ lifecycle_lock = Unlocked
  /\ caller_holds = FALSE
  /\ external_holds = FALSE
  /\ listener_pc = "idle"
  /\ request = NoConn
  /\ last_result = "none"
  /\ backlog = << >>
  /\ arrived = 0
  /\ sent = [c \in Conns |-> NoRequest]
  /\ thread_pc = [c \in Conns |-> "none"]
  /\ pending_exc = [c \in Conns |-> "none"]
  /\ local = [c \in Conns |-> NoLocal]
  /\ runner_calls = [c \in Conns |-> << >>]
  /\ trace = [c \in Conns |-> << >>]

\* Before PailgunServer(...) is called: nothing exists yet.
NotConstructed ==
  /\ server_address \in Addresses
  /\ server_port = NoPort
  /\ socket = "none"
  /\ init_outcome = "new"

\* After PailgunServer((host, 0), ...) returned with bind_and_activate left at
\* its default: the socket listens on the port the kernel picked.
Init ==
  /\ Serving
  /\ server_address = 0
  /\ server_port = getsockname(0, 65535)
  /\ socket = "listening"
  /\ init_outcome = "ok"

\* ----------------------------------------------------------- construction
\* PailgunServer(server_address, ..., bind_and_activate): the whole __init__.
init(bind_and_activate, ob, oa, p) ==
  /\ init_outcome = "new"
  /\ LET n == init_networking(bind_and_activate, server_address, ob, oa, p)
     IN /\ socket' = n.socket
        /\ server_port' = n.server_port
        /\ init_outcome' = InitOutcome(n)
  /\ UNCHANGED << server_address, listener_vars, handler_vars, backlog, arrived, sent, trace >>

\* A caller that constructed with bind_and_activate unset binds later; a
\* failing bind raises to that caller and leaves the server as it was.
caller_server_bind(ob, p) ==
  /\ Constructed
  /\ socket = "created"
  /\ LET n == server_bind(Networking(socket, server_port, "none"), server_address, ob, p)
     IN /\ socket' = n.socket
        /\ server_port' = n.server_port
  /\ UNCHANGED << server_address, init_outcome, listener_vars, handler_vars, backlog,
                  arrived, sent, trace >>

\* ... and then activates.
caller_server_activate(oa) ==
  /\ Constructed
  /\ socket = "bound"
  /\ socket' = server_activate(Networking(socket, server_port, "none"), oa).socket
  /\ UNCHANGED << server_address, server_port, init_outcome, listener_vars, handler_vars,
                  backlog, arrived, sent, trace >>

\* ------------------------------------------------------------- environment
\* A client connects and sends its request; the connection waits to be accepted.
ClientConnect ==
  /\ Listening
  /\ UNCHANGED server_vars
  /\ arrived < MaxConns
  /\ arrived' = arrived + 1
  /\ sent' = [sent EXCEPT ![arrived + 1] = RequestOf(arrived + 1)]
  /\ backlog' = Append(backlog, arrived + 1)
  /\ UNCHANGED << listener_vars, handler_vars, trace >>

\* The external lifecycle manager takes the lock (e.g. to start teardown).
ExternalAcquire ==
  /\ Constructed
  /\ UNCHANGED server_vars
  /\ ~external_holds
  /\ CanAcquire(lifecycle_lock, "external")
  /\ lifecycle_lock' = Acquire(lifecycle_lock, "external")
  /\ external_holds' = TRUE
  /\ UNCHANGED << caller_holds, listener_pc, request, last_result, backlog, arrived, sent,
                  handler_vars, trace >>

ExternalRelease ==
  /\ UNCHANGED server_vars
  /\ external_holds
  /\ lifecycle_lock' = Release(lifecycle_lock)
  /\ external_holds' = FALSE
  /\ UNCHANGED << caller_holds, listener_pc, request, last_result, backlog, arrived, sent,
                  handler_vars, trace >>

\* The Listener's caller takes / gives back the lock between handle_request calls.
CallerAcquire ==
  /\ Constructed
  /\ UNCHANGED server_vars
  /\ listener_pc = "idle"
  /\ ~caller_holds
  /\ CanAcquire(lifecycle_lock, "listener")
  /\ lifecycle_lock' = Acquire(lifecycle_lock, "listener")
  /\ caller_holds' = TRUE
  /\ UNCHANGED << external_holds, listener_pc, request, last_result, backlog, arrived,
                  sent, handler_vars, trace >>

CallerRelease ==
  /\ UNCHANGED server_vars
  /\ listener_pc = "idle"
  /\ caller_holds
  /\ lifecycle_lock' = Release(lifecycle_lock)
  /\ caller_holds' = FALSE
  /\ UNCHANGED << external_holds, listener_pc, request, last_result, backlog, arrived,
                  sent, handler_vars, trace >>

\* ---------------------------------------------------- TCPServer's cleanups
\* TCPServer.shutdown_request: request.shutdown(SHUT_WR) (a socket error is
\* swallowed), then close_request.
close_request(tr, by) == Append(tr, Event("close", "ok", by))
shutdown_request(tr, by) == close_request(Append(tr, Event("shutdown", "ok", by)), by)

\* ------------------------------------------ PailgunServer.handle_request
\* Faulty variant of Readable: the wait always reports the socket readable
Readable_always(q) == TRUE
\* fd_sets[0] of safe_select([self], [], [], timeout): the listening socket is
\* readable when a connection waits in its queue.
Readable(q) == q # << >>

\* Timeouts in milliseconds. socket.gettimeout() is None for a blocking socket.
NoTimeout == -1
\* Line 100: timeout = 0.05
ServerTimeout == 50
\* What self.socket.gettimeout() may return.
SockTimeouts == {NoTimeout, 10, 100}
Min(a, b) == IF a <= b THEN a ELSE b

\* Faulty variant of effective_timeout: the socket's own timeout is used as it is
effective_timeout_of_socket_only(st, t) == st
\* Lines 166-170: the timeout handed to select (st: the socket's, t: self.timeout).
effective_timeout(st, t) ==
  IF st = NoTimeout THEN t
  ELSE IF t # NoTimeout THEN Min(st, t)
  ELSE st

\* select with timeout w and nothing readable: it returns when w runs out,
\* and never with no timeout.
WaitEnds(w) == w # NoTimeout

\* Lines 166-174: the bounded wait; an idle tick calls handle_timeout and returns.
handle_request_poll(st) ==
  /\ Listening
  /\ UNCHANGED server_vars
  /\ listener_pc = "idle"
  /\ IF Readable(backlog)
       THEN /\ listener_pc' = "wait_lock"
            /\ UNCHANGED last_result
       ELSE /\ WaitEnds(effective_timeout(st, ServerTimeout))
            /\ listener_pc' = "idle"
            /\ last_result' = "timeout"
  /\ UNCHANGED << lifecycle_lock, caller_holds, external_holds, request, backlog, arrived,
                  sent, handler_vars, trace >>

\* handle_request up to the end of the wait, whatever the socket's timeout is.
handle_request_select == \E st \in SockTimeouts : handle_request_poll(st)

\* Line 178, __enter__ of `with self.lifecycle_lock()`: blocks while another
\* thread owns the lock.
lock_enter ==
  /\ UNCHANGED server_vars
  /\ listener_pc = "wait_lock"
  /\ CanAcquire(lifecycle_lock, "listener")
  /\ lifecycle_lock' = Acquire(lifecycle_lock, "listener")
  /\ listener_pc' = "locked"
  /\ UNCHANGED << caller_holds, external_holds, request, last_result, backlog, arrived, sent,
                  handler_vars, trace >>

\* How _handle_request_noblock ends, from get_request's and process_request's
\* outcomes: a socket error of accept is swallowed, any other exception of
\* accept propagates; an Exception of process_request is reported and
\* swallowed, a BaseException is re-raised.
NoblockResult(oa, op) ==
  CASE oa = "exc" -> "returned"
    [] oa = "base" -> "raised"
    [] oa = "ok" /\ op \in {"ok", "exc"} -> "returned"
    [] OTHER -> "raised"

\* Faulty variant of process_request: a thread runs although process_request raised
process_request_thread_despite_raise(op) == "start"
\* process_request, lines 149-155: the pc of the connection's thread after
\* t.start() (no thread exists when starting it raised).
process_request(op) == IF op = "ok" THEN "start" ELSE "unstarted"

\* Line 179: accept the head of the queue and dispatch it to a new thread.
handle_request_noblock(oa, op) ==
  /\ UNCHANGED server_vars
  /\ listener_pc = "locked"
  /\ backlog # << >>
  /\ listener_pc' = "unlock"
  /\ last_result' = NoblockResult(oa, op)
  /\ IF oa = "ok"
       THEN LET c == Head(backlog)
                accepted == Append(trace[c], Event("accept", "ok", "listener"))
            IN /\ backlog' = Tail(backlog)
               /\ request' = c
               /\ thread_pc' = [thread_pc EXCEPT ![c] = process_request(op)]
               /\ trace' = [trace EXCEPT ![c] =
                              IF op = "ok" THEN accepted
                              ELSE shutdown_request(accepted, "listener")]
       ELSE UNCHANGED << backlog, request, thread_pc, trace >>
  /\ UNCHANGED << lifecycle_lock, caller_holds, external_holds, arrived, sent, pending_exc,
                  local, runner_calls >>

\* Faulty variant of ProcessRequestReturns: the request is handled before process_request returns
ProcessRequestReturns_joins_thread(h) == h \in {"done", "died", "unstarted"}
\* t.start() returns as soon as the thread exists: process_request never waits
\* for the thread body (h is the pc of the dispatched connection's thread).
ProcessRequestReturns(h) == TRUE

\* Faulty variant of with_exit: no release when the block is left by an exception
with_exit_not_on_raise(l, result) == IF result = "raised" THEN l ELSE Release(l)
\* __exit__ of the with statement, lines 178-179: the lock is given back on
\* every way out of the block (result: how _handle_request_noblock ended).
with_exit(l, result) == Release(l)

\* The Listener leaves the with block, then handle_request returns (or the
\* exception propagates to its caller).
lock_exit ==
  /\ UNCHANGED server_vars
  /\ listener_pc = "unlock"
  /\ request # NoConn => ProcessRequestReturns(thread_pc[request])
  /\ lifecycle_lock' = with_exit(lifecycle_lock, last_result)
  /\ listener_pc' = "idle"
  /\ request' = NoConn
  /\ UNCHANGED << caller_holds, external_holds, last_result, backlog, arrived, sent,
                  handler_vars, trace >>

\* --------------------------------------------------------- PailgunHandler
\* NailgunProtocol.parse_request: the four fields of the request on the wire.
parse_request(r) == << r.wd, r.cmd, r.args, r.env >>

\* arguments.insert(0, './pants')
PantsToken == "./pants"
InsertFront(x, seq) == << x >> \o seq

\* Faulty variant of handle_locals: the request's command is used as the program name
handle_locals_uses_command(r) ==
  LET parsed == parse_request(r)
  IN [arguments |-> InsertFront(parsed[2], parsed[3]), environment |-> parsed[4]]
\* Lines 64-72: `_, _, arguments, environment = parse_request(...)`, then the
\* program name is put in front of the arguments.
handle_locals(r) ==
  LET parsed == parse_request(r)
  IN [arguments |-> InsertFront(PantsToken, parsed[3]), environment |-> parsed[4]]

\* Line 59: what runner_factory is called with.
run_pants(sock, arguments, environment) ==
  [sock |-> sock, arguments |-> arguments, environment |-> environment]

\* Faulty variant of handle_request_exit: finish() is skipped when handle() raised
handle_request_exit_no_finally(tr, o) ==
  IF Raised(o) THEN tr ELSE Append(tr, Event("finish", "ok", "handler"))
\* PailgunHandlerBase.handle_request, lines 41-45: finish() runs in the finally
\* clause whatever handle() did (o: how handle() ended).
handle_request_exit(tr, o) == Append(tr, Event("finish", "ok", "handler"))

\* Faulty variant of after_handle_request: the callback is also reached when handle_request raised
after_handle_request_callback_in_finally(o) ==
  CASE o = "base" -> "died"
    [] OTHER -> "callback"
\* process_request_thread, lines 186-203: where the thread goes once
\* handler.handle_request() ended with outcome o. An Exception enters the
\* except clause, any other BaseException leaves the thread with no cleanup.
after_handle_request(o) ==
  CASE o = "ok" -> "callback"
    [] o = "exc" -> "handle_error"
    [] OTHER -> "died"

\* Faulty variant of finally_shutdown_request: the cleanup is skipped when handle_error raised
shutdown_request_without_finally(tr, o) ==
  IF Raised(o) THEN tr ELSE shutdown_request(tr, "handler")
\* Lines 193-197: try handle_error / finally shutdown_request: the cleanup runs
\* whatever handle_error did (o: how handle_error ended).
finally_shutdown_request(tr, o) == shutdown_request(tr, "handler")

\* Faulty variant of after_callback: an Exception of the callback is dropped
after_callback_exception_dropped(o) ==
  CASE o = "base" -> "died"
    [] OTHER -> "close_request"
\* Line 189: where the thread goes once request_complete_callback ended with o.
after_callback(o) ==
  CASE o = "ok" -> "close_request"
    [] o = "exc" -> "handle_error"
    [] OTHER -> "died"

\* traceback.format_exc() inside the except clause: the formatted traceback.
format_exc(e) == IF e = "none" THEN "NoneType: None" ELSE "Traceback (most recent call last): ..."

FailureCode == 1

\* Faulty variant of handle_error: the exit code is written before the stderr text
handle_error_exit_code_first(exc, o1, o2) ==
  << Write("send_exit", o2, "handler", FailureCode) >>
    \o (IF exc # "none" /\ ~Raised(o2)
          THEN << Write("send_stderr", o1, "handler", format_exc(exc)) >>
          ELSE << >>)
\* PailgunHandler.handle_error, lines 85-90: the writes it makes for error
\* object exc when send_stderr ends with o1 and send_exit_with_code with o2.
handle_error(exc, o1, o2) ==
  LET stderr == IF exc # "none"
                  THEN << Write("send_stderr", o1, "handler", format_exc(exc)) >>
                  ELSE << >>
  IN IF exc # "none" /\ Raised(o1)
       THEN stderr
       ELSE stderr \o << Write("send_exit", o2, "handler", FailureCode) >>

\* How handle_error ended: the outcome of the write that raised, else "ok".
handle_error_outcome(exc, o1, o2) ==
  IF exc # "none" /\ Raised(o1) THEN o1 ELSE o2

\* Lines 184-185, 41 and 64: the thread builds the handler, runs setup() and
\* decodes the request.
handle_decode(c, o) ==
  /\ UNCHANGED server_vars
  /\ thread_pc[c] = "start"
  /\ LET decoded == trace[c] \o << Event("setup", "ok", "handler"),
                                   Event("parse_request", o, "handler") >>
     IN IF o = "ok"
          THEN /\ local' = [local EXCEPT ![c] = handle_locals(sent[c])]
               /\ thread_pc' = [thread_pc EXCEPT ![c] = "dispatch"]
               /\ trace' = [trace EXCEPT ![c] = decoded]
               /\ UNCHANGED pending_exc
          ELSE /\ thread_pc' = [thread_pc EXCEPT ![c] = after_handle_request(o)]
               /\ pending_exc' = [pending_exc EXCEPT ![c] = o]
               /\ trace' = [trace EXCEPT ![c] = handle_request_exit(decoded, o)]
               /\ UNCHANGED local
  /\ UNCHANGED << listener_vars, backlog, arrived, sent, runner_calls >>

\* Lines 78-79 and 59: call the Runner factory.
handle_dispatch(c, o) ==
  /\ UNCHANGED server_vars
  /\ thread_pc[c] = "dispatch"
  /\ runner_calls' = [runner_calls EXCEPT ![c] =
                        Append(@, run_pants(c, local[c].arguments, local[c].environment))]
  /\ LET called == Append(trace[c], Event("runner_factory", o, "handler"))
     IN IF o = "ok"
          THEN /\ thread_pc' = [thread_pc EXCEPT ![c] = "run"]
               /\ trace' = [trace EXCEPT ![c] = called]
               /\ UNCHANGED << pending_exc, local >>
          ELSE /\ thread_pc' = [thread_pc EXCEPT ![c] = after_handle_request(o)]
               /\ pending_exc' = [pending_exc EXCEPT ![c] = o]
               /\ local' = [local EXCEPT ![c] = NoLocal]
               /\ trace' = [trace EXCEPT ![c] = handle_request_exit(called, o)]
  /\ UNCHANGED << listener_vars, backlog, arrived, sent >>

\* Line 59, .run(): the Runner returns or raises; handle() and then
\* handle_request() end with the same outcome. Nothing makes run() return: a
\* thread may stay at "run" for good.
handle_run(c, o) ==
  /\ UNCHANGED server_vars
  /\ thread_pc[c] = "run"
  /\ thread_pc' = [thread_pc EXCEPT ![c] = after_handle_request(o)]
  /\ pending_exc' = [pending_exc EXCEPT ![c] = IF Raised(o) THEN o ELSE "none"]
  /\ local' = [local EXCEPT ![c] = NoLocal]
  /\ trace' = [trace EXCEPT ![c] =
                 handle_request_exit(Append(@, Event("run", o, "handler")), o)]
  /\ UNCHANGED << listener_vars, backlog, arrived, sent, runner_calls >>

\* Line 189: self.request_complete_callback().
request_complete_callback(c, o) ==
  /\ UNCHANGED server_vars
  /\ thread_pc[c] = "callback"
  /\ thread_pc' = [thread_pc EXCEPT ![c] = after_callback(o)]
  /\ pending_exc' = [pending_exc EXCEPT ![c] = IF Raised(o) THEN o ELSE "none"]
  /\ trace' = [trace EXCEPT ![c] = Append(@, Event("callback", o, "handler"))]
  /\ UNCHANGED << listener_vars, backlog, arrived, sent, local, runner_calls >>

\* Lines 191-197: the except clause calls handler.handle_error(e); the finally
\* clause then shuts the connection down and closes it, and an exception of
\* handle_error leaves the thread after that.
thread_handle_error(c, o1, o2) ==
  /\ UNCHANGED server_vars
  /\ thread_pc[c] = "handle_error"
  /\ Raised(o1) => o2 = "ok"
  /\ thread_pc' = [thread_pc EXCEPT ![c] =
                     IF Raised(handle_error_outcome(pending_exc[c], o1, o2))
                       THEN "died" ELSE "done"]
  /\ pending_exc' = [pending_exc EXCEPT ![c] =
                       IF Raised(handle_error_outcome(pending_exc[c], o1, o2))
                         THEN handle_error_outcome(pending_exc[c], o1, o2)
                         ELSE "none"]
  /\ trace' = [trace EXCEPT ![c] =
                 finally_shutdown_request(@ \o handle_error(pending_exc[c], o1, o2),
                                          handle_error_outcome(pending_exc[c], o1, o2))]
  /\ UNCHANGED << listener_vars, backlog, arrived, sent, local, runner_calls >>

\* Lines 198-203: the else clause closes the parent's handle, no shutdown.
thread_close_request(c) ==
  /\ UNCHANGED server_vars
  /\ thread_pc[c] = "close_request"
  /\ thread_pc' = [thread_pc EXCEPT ![c] = "done"]
  /\ trace' = [trace EXCEPT ![c] = close_request(@, "handler")]
  /\ UNCHANGED << listener_vars, backlog, arrived, sent, pending_exc, local,
                  runner_calls >>

\* --------------------------------------------------------------------- Next
Next ==
  \/ ClientConnect
  \/ ExternalAcquire
  \/ ExternalRelease
  \/ CallerAcquire
  \/ CallerRelease
  \/ handle_request_select
  \/ lock_enter
  \/ \E oa \in IOOutcomes, op \in Outcomes : handle_request_noblock(oa, op)
  \/ lock_exit
  \/ \E c \in Conns, o \in IOOutcomes : handle_decode(c, o)
  \/ \E c \in Conns, o \in IOOutcomes : handle_dispatch(c, o)
  \/ \E c \in Conns, o \in Outcomes : handle_run(c, o)
  \/ \E c \in Conns, o \in IOOutcomes : request_complete_callback(c, o)
  \/ \E c \in Conns, o1 \in IOOutcomes, o2 \in IOOutcomes : thread_handle_error(c, o1, o2)
  \/ \E c \in Conns : thread_close_request(c)

Spec == Init /\ [][Next]_vars

\* The server's whole life: construction, a late bind and activate by the
\* caller, then serving.
ServerInit == Serving /\ NotConstructed
ServerNext ==
  \/ \E b \in BOOLEAN, ob \in IOOutcomes, oa \in IOOutcomes, p \in KernelPorts : init(b, ob, oa, p)
  \/ \E ob \in IOOutcomes, p \in KernelPorts : caller_server_bind(ob, p)
  \/ \E oa \in IOOutcomes : caller_server_activate(oa)
  \/ Next
ServerSpec == ServerInit /\ [][ServerNext]_vars

\* The scheduling the liveness claims rest on: the Listener's caller keeps
\* calling handle_request and every thread that can run does run; a thread
\* waiting for the lock gets it once it is free often enough; the external
\* holder gives the lock back; accept and thread creation do not fail forever.
\* Nothing makes a Runner's run() return.
ListenerStep ==
  \/ handle_request_select
  \/ \E oa \in IOOutcomes, op \in Outcomes : handle_request_noblock(oa, op)
  \/ lock_exit

FairSpec ==
  /\ Spec
  /\ WF_vars(ListenerStep)
  /\ SF_vars(lock_enter)
  /\ SF_vars(handle_request_noblock("ok", "ok"))
  /\ WF_vars(ExternalRelease)

\* ------------------------------------------------------- reading the traces
Count(tr, op) == Cardinality({ i \in DOMAIN tr : tr[i].op = op })
Has(tr, op, res) == \E i \in DOMAIN tr : tr[i].op = op /\ tr[i].res = res
Finished(c) == thread_pc[c] \in {"done", "died"}
\* decode succeeded and run() returned normally
RunReturned(c) == Has(trace[c], "run", "ok")
\* decode, the Runner factory or run() raised an Exception
HandleRaised(c) ==
  \/ Has(trace[c], "parse_request", "exc")
  \/ Has(trace[c], "runner_factory", "exc")
  \/ Has(trace[c], "run", "exc")
\* what happened to the connection after handler.handle_request() ended
AfterFinish(tr) ==
  IF Count(tr, "finish") = 0 THEN << >>
  ELSE LET i == CHOOSE j \in DOMAIN tr : tr[j].op = "finish"
       IN SubSeq(tr, i + 1, Len(tr))
OpsOf(tr) == [i \in DOMAIN tr |-> tr[i].op]
Running(c) == thread_pc[c] \in {"start", "dispatch", "run"}

\* ------------------------------------------------------------------ claims

\* C1 (as stated): every finished connection whose decode succeeded and whose
\* run() returned normally has had request_complete_callback invoked exactly
\* once and has been closed once with no shutdown, whatever the callback did.
C1_CallbackOnceCloseNoShutdown ==
  \A c \in Conns :
    (Finished(c) /\ RunReturned(c)) =>
      /\ Count(trace[c], "callback") = 1
      /\ Count(trace[c], "close") = 1
      /\ Count(trace[c], "shutdown") = 0

\* C2 (as stated): every finished connection on which decode, the Runner
\* factory or run() raised an Exception got a non-empty stderr write, then the
\* exit code 1 and nothing after it, and was then shut down and closed.
C2_Original ==
  \A c \in Conns :
    (Finished(c) /\ HandleRaised(c)) =>
      LET after == AfterFinish(trace[c])
      IN /\ OpsOf(after) = << "send_stderr", "send_exit", "shutdown", "close" >>
         /\ after[1].res = "ok" /\ after[1].data \notin {"", None}
         /\ after[2].res = "ok" /\ after[2].data = 1

\* C2 (amended): on such a connection the handler first makes a non-empty
\* stderr write; if that write does not raise it then writes exit code 1 and
\* nothing after it; whether or not a write raises, the connection is then
\* shut down and closed by the handler thread, and nothing else is done to it.
C2_ErrorResponseThenShutdownClose ==
  \A c \in Conns :
    (Finished(c) /\ HandleRaised(c)) =>
      LET after == AfterFinish(trace[c])
          n == Len(after)
      IN /\ n >= 3
         /\ OpsOf(SubSeq(after, n - 1, n)) = << "shutdown", "close" >>
         /\ \A i \in n - 1 .. n : after[i].by = "handler"
         /\ after[1].op = "send_stderr" /\ after[1].data \notin {"", None}
         /\ IF after[1].res = "ok"
              THEN /\ n = 4
                   /\ after[2].op = "send_exit" /\ after[2].data = 1
              ELSE n = 3

C2_Witness ==
  \E c \in Conns :
    /\ Finished(c) /\ Has(trace[c], "run", "exc")
    /\ Has(trace[c], "send_stderr", "ok") /\ Has(trace[c], "send_exit", "ok")
    /\ Count(trace[c], "close") = 1

\* C3: request_complete_callback is invoked at most once per connection, never
\* for a connection whose decode or dispatch raised, and the number of
\* invocations never exceeds the number of connections whose run() returned.
C3_CallbackOnlyOnSuccess ==
  /\ \A c \in Conns :
       /\ Count(trace[c], "callback") <= 1
       /\ Count(trace[c], "callback") = 1 => RunReturned(c)
       /\ (Has(trace[c], "parse_request", "exc")
            \/ Has(trace[c], "runner_factory", "exc")
            \/ Has(trace[c], "run", "exc")
            \/ Has(trace[c], "run", "base")) => Count(trace[c], "callback") = 0
  /\ Cardinality({ c \in Conns : Count(trace[c], "callback") > 0 })
       <= Cardinality({ c \in Conns : RunReturned(c) })

C3_Witness ==
  \E c, d \in Conns :
    /\ Finished(c) /\ Count(trace[c], "callback") = 1
    /\ Finished(d) /\ HandleRaised(d) /\ Count(trace[d], "callback") = 0

C6_BlockedHandlerDoesNotBlockListener ==
  \A c \in Conns :
    ((\E b \in Conns : thread_pc[b] = "run")
       /\ thread_pc[c] = "none" /\ sent[c] # NoRequest)
      ~> (thread_pc[c] # "none")

C6_Witness ==
  \E b, c \in Conns :
    /\ thread_pc[b] = "run"
    /\ b < c
    /\ thread_pc[c] = "done"
    /\ Count(trace[c], "callback") = 1

\* C7: every way out of the accept+dispatch step, a raise included, leaves
\* the Listener thread holding the lock exactly as often as before the call
\* (as often as its caller holds it); an idle tick does not touch the lock.
C7_LockReleasedOnEveryExit ==
  [][ /\ (listener_pc # "idle" /\ listener_pc' = "idle")
          => HeldBy(lifecycle_lock', "listener") = Outer(caller_holds)
      /\ (listener_pc = "wait_lock" /\ listener_pc' = "locked")
          => HeldBy(lifecycle_lock', "listener") = Outer(caller_holds) + 1 ]_vars

C7_Witness ==
  /\ listener_pc = "idle"
  /\ last_result = "raised"
  /\ caller_holds
  /\ lifecycle_lock = [owner |-> "listener", count |-> 1]

\* C8: when no connection is readable at the end of the wait, handle_request
\* returns normally (an idle tick) and neither accepts a connection nor
\* spawns a thread nor touches the lock.
C8_IdleTickReturns ==
  [][ (listener_pc = "idle" /\ backlog = << >>
         /\ << listener_pc, last_result >>' # << listener_pc, last_result >>)
      => /\ listener_pc' = "idle"
         /\ last_result' = "timeout"
         /\ UNCHANGED << lifecycle_lock, request, backlog, thread_pc, trace >> ]_vars

C8_Witness ==
  /\ last_result = "timeout"
  /\ listener_pc = "idle"
  /\ \A c \in Conns : trace[c] = << >>

\* C9: when a write of handle_error raises, the handler thread still shuts the
\* connection down and closes it, and the Listener is not touched: the step
\* changes nothing of the Listener's state, which goes on polling.
C9_ErrorPathFailureContained ==
  /\ [](\A c \in Conns :
          (Finished(c) /\ (Has(trace[c], "send_stderr", "exc")
                            \/ Has(trace[c], "send_exit", "exc"))) =>
            LET n == Len(trace[c])
            IN /\ n >= 2
               /\ trace[c][n - 1] = Event("shutdown", "ok", "handler")
               /\ trace[c][n] = Event("close", "ok", "handler")
               /\ Count(trace[c], "close") = 1)
  /\ [][ (\E c \in Conns : thread_pc[c] = "handle_error" /\ thread_pc'[c] = "died")
           => UNCHANGED << lifecycle_lock, caller_holds, external_holds, listener_pc, request,
                           last_result, backlog >> ]_vars
  /\ []((\E c \in Conns : thread_pc[c] = "died")
          => (listener_pc = "idle" => ENABLED handle_request_select))

C9_Witness ==
  \E c, d \in Conns :
    /\ thread_pc[c] = "died" /\ Has(trace[c], "send_stderr", "exc")
    /\ c < d /\ thread_pc[d] = "done"
    /\ last_result = "returned"

\* C10: the Runner factory is called at most once per connection, exactly
\* once when the request was decoded and the handler got past the call, with
\* the connection, './pants' followed by the decoded arguments in order, and
\* the decoded environment; working directory and command play no part.
C10_RunnerFactoryArguments ==
  \A c \in Conns :
    /\ Len(runner_calls[c]) <= 1
    /\ Len(runner_calls[c]) = Count(trace[c], "runner_factory")
    /\ (Has(trace[c], "parse_request", "ok") /\ thread_pc[c] # "dispatch")
         => Len(runner_calls[c]) = 1
    /\ Len(runner_calls[c]) = 1 =>
         /\ runner_calls[c][1].sock = c
         /\ runner_calls[c][1].arguments = << "./pants" >> \o sent[c].args
         /\ runner_calls[c][1].environment = sent[c].env

C10_Witness ==
  \E c, d \in Conns :
    /\ Len(runner_calls[c]) = 1 /\ Len(runner_calls[d]) = 1
    /\ sent[c].args = << "list", "::" >>
    /\ sent[d].args = << "::", "list" >>
    /\ runner_calls[d][1].environment = ProfileEnv

\* ---------------------------------------------------------------------- C11
\* C11: server_port is None until server_bind has bound the socket; from then
\* on it is the port actually bound (for a requested port 0 a port above 0 and
\* below 65536, else the requested port); it changes only in the step that
\* binds, and handle_request, process_request and process_request_thread
\* leave it alone.
PortUnsetBeforeBind ==
  (socket \in {"none", "created"} \/ init_outcome = "bind") => server_port = NoPort
PortIsBoundPort ==
  socket \in {"bound", "listening"} =>
    IF server_address = 0 THEN server_port > 0 /\ server_port < 65536
    ELSE server_port = server_address
PortSetOnceByBind ==
  server_port' # server_port =>
    /\ server_port = NoPort
    /\ socket \in {"none", "created"}
    /\ socket' \in {"bound", "listening", "closed"}
C11_ServerPortSetByBindOnly ==
  /\ [](PortUnsetBeforeBind /\ PortIsBoundPort)
  /\ [][PortSetOnceByBind /\ (Next => server_port' = server_port)]_vars
\* A server bound to a kernel-picked port has served a connection to its end.
C11_Witness ==
  /\ server_address = 0
  /\ server_port = 65535
  /\ \E c \in Conns : thread_pc[c] = "done"

\* ---------------------------------------------------------------------- C12
\* C12: when server_bind or server_activate raises inside __init__ with
\* bind_and_activate set, __init__ ends with the socket closed and lets out the
\* exception of the call that failed; with bind_and_activate unset __init__
\* returns with the socket neither bound nor closed and server_port None.
InitFailureClosesSocket ==
  \A ob \in IOOutcomes, oa \in IOOutcomes, p \in KernelPorts :
    /\ init(TRUE, "exc", oa, p) =>
         socket' = "closed" /\ init_outcome' = "bind" /\ server_port' = NoPort
    /\ init(TRUE, "ok", "exc", p) =>
         socket' = "closed" /\ init_outcome' = "activate" /\ server_port' # NoPort
    /\ init(TRUE, "ok", "ok", p) => socket' = "listening" /\ init_outcome' = "ok"
    /\ init(FALSE, ob, oa, p) =>
         socket' = "created" /\ init_outcome' = "ok" /\ server_port' = NoPort
C12_InitClosesSocketOnFailure ==
  /\ [](init_outcome \in {"bind", "activate"} => socket = "closed")
  /\ [][InitFailureClosesSocket]_vars
\* server_activate raised inside __init__ and the socket is closed.
C12_Witness == init_outcome = "activate" /\ socket = "closed" /\ server_port # NoPort

\* ---------------------------------------------------------------------- C13
\* C13: every handling step on a connection (accept, decode, run(), error
\* reporting, cleanup) is taken while the Listener holds the lifecycle lock,
\* so never while the external manager holds it.
C13_AllHandlingUnderLock ==
  [][ (\E c \in Conns : trace'[c] # trace[c]) =>
        (lifecycle_lock.owner = "listener" /\ ~external_holds) ]_vars

HandleOps == {"parse_request", "runner_factory", "run"}
ThreadOps == {"callback", "send_stderr", "send_exit", "shutdown", "close"}
InsideHandle(c) == thread_pc[c] \in {"dispatch", "run"}
HandleEnded(c) ==
  thread_pc[c] \in {"callback", "handle_error", "close_request", "done", "died"}
C15_SetupHandleFinishOrder ==
  \A c \in Conns :
    LET tr == trace[c]
    IN /\ InsideHandle(c) =>
            /\ Count(tr, "setup") = 1 /\ Count(tr, "finish") = 0
            /\ \A i \in DOMAIN tr : tr[i].op \notin ThreadOps
       /\ HandleEnded(c) =>
            /\ Count(tr, "setup") = 1 /\ Count(tr, "finish") = 1
            /\ \A i, j \in DOMAIN tr :
                 /\ (tr[i].op = "setup" /\ tr[j].op \in HandleOps) => i < j
                 /\ (tr[i].op \in HandleOps /\ tr[j].op = "finish") => i < j
                 /\ (tr[i].op = "finish" /\ tr[j].op \in ThreadOps) => i < j
            /\ \E i \in DOMAIN tr : tr[i].op \in HandleOps
\* One connection ended handle by a raise and was cleaned up, another ended
\* it by a BaseException that left its thread.
C15_Witness ==
  \E c, d \in Conns :
    /\ thread_pc[c] = "done" /\ Has(trace[c], "runner_factory", "exc")
    /\ Has(trace[c], "shutdown", "ok")
    /\ thread_pc[d] = "died" /\ Has(trace[d], "run", "base")
    /\ Count(trace[d], "finish") = 1

\* ---------------------------------------------------------------------- C16
\* C16: the step in which decode, the Runner factory or run() raises on one
\* connection changes nothing of the Listener, of the queue or of any other
\* connection's thread; after such a failure the Listener can take each of
\* its steps (poll, accept+dispatch, leave the with block), and every other
\* handler thread can take its next step with every outcome that step has.
HandleFails(c) ==
  /\ thread_pc[c] \in {"start", "dispatch", "run"}
  /\ thread_pc'[c] \in {"handle_error", "died"}
OthersUntouched(c) ==
  \A d \in Conns \ {c} :
    /\ thread_pc'[d] = thread_pc[d] /\ trace'[d] = trace[d]
    /\ pending_exc'[d] = pending_exc[d] /\ local'[d] = local[d]
    /\ runner_calls'[d] = runner_calls[d] /\ sent'[d] = sent[d]
ListenerCanStep ==
  /\ listener_pc = "idle" => ENABLED handle_request_select
  /\ listener_pc = "locked" => ENABLED handle_request_noblock("ok", "ok")
  /\ listener_pc = "unlock" => ENABLED lock_exit
  /\ (listener_pc = "wait_lock" /\ ~external_holds) => ENABLED lock_enter
HandlerCanStep(d) ==
  /\ thread_pc[d] = "start" => \A o \in IOOutcomes : ENABLED handle_decode(d, o)
  /\ thread_pc[d] = "dispatch" => \A o \in IOOutcomes : ENABLED handle_dispatch(d, o)
  /\ thread_pc[d] = "run" => \A o \in Outcomes : ENABLED handle_run(d, o)
  /\ thread_pc[d] = "callback" => \A o \in IOOutcomes : ENABLED request_complete_callback(d, o)
  /\ thread_pc[d] = "handle_error" => \A o \in IOOutcomes : ENABLED thread_handle_error(d, o, "ok")
  /\ thread_pc[d] = "close_request" => ENABLED thread_close_request(d)
C16_HandlerFailureIsolated ==
  /\ [][ \A c \in Conns : HandleFails(c) =>
           (UNCHANGED << listener_vars, backlog, arrived >> /\ OthersUntouched(c)) ]_vars
  /\ [](\A c \in Conns :
          (HandleRaised(c) \/ Has(trace[c], "run", "base")) =>
            /\ ListenerCanStep
            /\ \A d \in Conns \ {c} : HandlerCanStep(d))
\* After the first connection's decode failed, a later connection was accepted
\* and served to a normal end.
C16_Witness ==
  \E c, d \in Conns :
    /\ c < d
    /\ Has(trace[c], "parse_request", "exc") /\ thread_pc[c] = "done"
    /\ thread_pc[d] = "done" /\ Has(trace[d], "callback", "ok")
    /\ Count(trace[d], "shutdown") = 0
    /\ listener_pc = "idle"

\* ---------------------------------------------------------------------- C17
\* C17: a connection is accepted once, by the Listener, and gets at most one
\* handler thread, created in the accept+dispatch step and never again; once
\* that thread exists everything done to the connection is done by it, the
\* Listener touching the connection again only when no thread was started.
ThreadStarted(c) == thread_pc[c] \notin {"none", "unstarted"}
C17_OneThreadPerConnection ==
  /\ [](\A c \in Conns :
          LET tr == trace[c]
          IN /\ Count(tr, "accept") <= 1
             /\ Count(tr, "setup") <= 1
             /\ tr # << >> => tr[1] = Event("accept", "ok", "listener")
             /\ ThreadStarted(c) => \A i \in 2 .. Len(tr) : tr[i].by = "handler"
             /\ ~ThreadStarted(c) => \A i \in DOMAIN tr : tr[i].by = "listener")
  /\ [][ \A c \in Conns :
           /\ (thread_pc'[c] = "start" /\ thread_pc[c] # "start") =>
                (thread_pc[c] = "none" /\ listener_pc = "locked" /\ request' = c)
           /\ (ThreadStarted(c) /\ listener_pc' # listener_pc) => trace'[c] = trace[c] ]_vars
\* Both connections were handled to the end by their own threads, in turn.
C17_Witness ==
  /\ \A c \in Conns : thread_pc[c] = "done" /\ Len(trace[c]) >= 6
  /\ listener_pc = "idle"

\* ---------------------------------------------------------------------- C18
\* what happened to the connection after request_complete_callback ended
AfterCallback(tr) ==
  IF Count(tr, "callback") = 0 THEN << >>
  ELSE LET i == CHOOSE j \in DOMAIN tr : tr[j].op = "callback"
       IN SubSeq(tr, i + 1, Len(tr))
CallbackRaised(c) == Has(trace[c], "run", "ok") /\ Has(trace[c], "callback", "exc")

\* C18 (as stated): every finished connection whose run() returned and whose
\* callback raised an Exception got a stderr write and the exit code 1, was
\* then shut down and closed, and was not closed a second time.
C18_Original ==
  \A c \in Conns :
    (Finished(c) /\ CallbackRaised(c)) =>
      LET after == AfterCallback(trace[c])
      IN /\ OpsOf(after) = << "send_stderr", "send_exit", "shutdown", "close" >>
         /\ after[1].res = "ok"
         /\ after[2].res = "ok" /\ after[2].data = 1

\* C18 (amended): on such a connection handle_error is entered: it makes a
\* non-empty stderr write and, if that write does not raise, writes exit code
\* 1; whether or not a write raises the handler thread then shuts the
\* connection down and closes it, once, and there is no close without the
\* shutdown before it.
C18_CallbackFailureTakesErrorPath ==
  \A c \in Conns :
    (Finished(c) /\ CallbackRaised(c)) =>
      LET after == AfterCallback(trace[c])
          n == Len(after)
      IN /\ n >= 3
         /\ after[n - 1] = Event("shutdown", "ok", "handler")
         /\ after[n] = Event("close", "ok", "handler")
         /\ Count(trace[c], "close") = 1 /\ Count(trace[c], "shutdown") = 1
         /\ after[1].op = "send_stderr" /\ after[1].data \notin {"", None}
         /\ IF after[1].res = "ok"
              THEN n = 4 /\ after[2].op = "send_exit" /\ after[2].data = FailureCode
              ELSE n = 3
\* The callback raised after a normal run(); both error writes went through.
C18_Witness ==
  \E c \in Conns :
    /\ thread_pc[c] = "done" /\ CallbackRaised(c)
    /\ Has(trace[c], "send_stderr", "ok") /\ Has(trace[c], "send_exit", "ok")
    /\ Has(trace[c], "shutdown", "ok")

\* ---------------------------------------------------------------------- C19
\* C19: every connection whose handler thread has ended was cleaned up by
\* exactly one of the two paths, close_request alone or shutdown_request
\* (shutdown, then close), by its own thread: closed exactly once, shut down
\* at most once, whatever decode, run(), the callback and the error writes did.
C19_ExactlyOneCleanupPath ==
  \A c \in Conns :
    Finished(c) =>
      LET tr == trace[c]
          n == Len(tr)
      IN /\ Count(tr, "close") = 1
         /\ Count(tr, "shutdown") <= 1
         /\ tr[n] = Event("close", "ok", "handler")
         /\ Count(tr, "shutdown") = 1 => tr[n - 1] = Event("shutdown", "ok", "handler")

\* ---------------------------------------------------------------------- C20
\* C20: the Listener asks for the lock only after the poll reported a
\* connection readable, and an idle tick leaves the lock as it is. So a lock
\* held by the external manager never keeps the poll from ending in an idle
\* tick, whatever the socket's timeout, and a Listener between calls holds the
\* lock only as far as its caller does: the external manager can take a free
\* lock at once.
LockAskedOnlyWhenReadable ==
  /\ (listener_pc # "wait_lock" /\ listener_pc' = "wait_lock") =>
       (listener_pc = "idle" /\ Readable(backlog) /\ lifecycle_lock' = lifecycle_lock)
  /\ (listener_pc # "locked" /\ listener_pc' = "locked") => listener_pc = "wait_lock"
  /\ \A st \in SockTimeouts :
       (handle_request_poll(st) /\ ~Readable(backlog)) =>
         (lifecycle_lock' = lifecycle_lock /\ external_holds' = external_holds)
C20_IdleTickLeavesLockAlone ==
  /\ [][LockAskedOnlyWhenReadable]_vars
  /\ [](listener_pc \in {"wait_lock", "locked"} => backlog # << >>)
  /\ []((listener_pc = "idle" /\ external_holds) =>
          \A st \in SockTimeouts : ENABLED handle_request_poll(st))
  /\ []((listener_pc = "idle" /\ ~caller_holds) =>
          /\ HeldBy(lifecycle_lock, "listener") = 0
          /\ ~external_holds => ENABLED ExternalAcquire)
\* An idle tick has ended while the external manager holds the lock.
C20_Witness ==
  /\ external_holds
  /\ lifecycle_lock = [owner |-> "external", count |-> 1]
  /\ listener_pc = "idle"
  /\ last_result = "timeout"
  /\ backlog = << >>
====
